---- MODULE Spec2Model ----
(***************************************************************************)
(* Model of the Bingo backend in src/src/server.js: the in-memory room     *)
(* registry `games` and the socket event handlers create-room, join-room,  *)
(* start-game, call-number, mark-cell, claim-bingo and disconnect.         *)
(*                                                                         *)
(* Node runs one handler to completion before the next event is            *)
(* dispatched, so every handler is one atomic action.  Math.random() is    *)
(* the only source of nondeterminism inside a handler; a draw is modelled  *)
(* as a value u in 0..RandDen-1 standing for the real number u / RandDen.  *)
(* The broadcasts (io.to(..).emit) and the transport's own room            *)
(* membership (socket.join) are outputs of the transport layer and touch   *)
(* none of the program's state; they are not part of the state here.  The  *)
(* callback's payload is kept in `last`.                                   *)
(***************************************************************************)
EXTENDS Integers, Sequences, FiniteSets, TLC

VARIABLES
    games,      \* the Map roomId -> game             (server.js line 19)
    conn,       \* each socket's connection: "new", "open" or "closed"
    last,       \* the last event handled and what its callback was given
    crashed     \* TRUE once a handler has thrown (uncaught: the process ends)

vars == <<games, conn, last, crashed>>

----------------------------------------------------------------------------
(* Values *)

NULL == "null"          \* JavaScript null / undefined
FREE == "free"          \* the marker of the center cell

\* Socket ids (socket.id): unique per connection, never reused.
Sockets == {"s1", "s2", "s3"}

\* Room codes Math.random().toString(36).substring(2, 8) can produce.
RoomIds == {"r1", "r2"}

\* The display name sent with create-room and join-room.
Names == {"Alice"}

\* The resolution of a Math.random() draw: u stands for u / RandDen.
RandDen == 75

\* Upper end of the numbers that can be called: Array.from({ length: 75 }).
MaxNumber == 75

\* Board side: Array.from({ length: 5 }), col < 5, row < 5.
BoardSize == 5

Idx == 0 .. (BoardSize - 1)

\* const ranges = [[1, 15], [16, 30], [31, 45], [46, 60], [61, 75]]
ranges == << <<1, 15>>, <<16, 30>>, <<31, 45>>, <<46, 60>>, <<61, 75>> >>

----------------------------------------------------------------------------
(* Helpers of the JavaScript runtime *)

\* Math.floor(Math.random() * len) for the draw u / RandDen.
RandIndex(u, len) == (u * len) \div RandDen

\* The stream of Math.random() draws one generateBoard() call consumes,
\* indexed by draw number 0..24, determined by a seed.
RandStream(seed) == [i \in 0 .. (BoardSize * BoardSize - 1) |-> (seed * (i + 1)) % RandDen]

\* numbers.splice(i, 1): the array without its element at 0-based index i.
Splice(numbers, i) == SubSeq(numbers, 1, i) \o SubSeq(numbers, i + 2, Len(numbers))

\* JavaScript truthiness of a markedBy value (null is falsy, ids are truthy).
Truthy(v) == v # NULL

\* array.includes(x)
Includes(seq, x) == \E i \in 1 .. Len(seq) : seq[i] = x

\* The function f without the key k (delete obj[k], Map.delete(k)).
Without(f, k) == [x \in (DOMAIN f) \ {k} |-> f[x]]

\* The function f with key k set to v (obj[k] = v, Map.set(k, v)).
With(f, k, v) == [x \in (DOMAIN f) \cup {k} |-> IF x = k THEN v ELSE f[x]]

----------------------------------------------------------------------------
(* generateBoard, lines 22-47 *)

\* Mutant of DrawColumn: the drawn number is read with numbers[i] instead
\* of being spliced out, so it stays available for the next rows.
RECURSIVE DrawColumn_NoSplice(_, _, _, _)
DrawColumn_NoSplice(numbers, rnd, col, row) ==
    IF row = BoardSize THEN <<>>
    ELSE LET i == RandIndex(rnd[col * BoardSize + row], Len(numbers))
         IN  <<numbers[i + 1]>> \o DrawColumn_NoSplice(numbers, rnd, col, row + 1)

\* The inner loop over rows of one column: the numbers drawn for rows row..4.
RECURSIVE DrawColumn(_, _, _, _)
DrawColumn(numbers, rnd, col, row) ==
    IF row = BoardSize THEN <<>>
    ELSE LET i == RandIndex(rnd[col * BoardSize + row], Len(numbers))
         IN  <<numbers[i + 1]>> \o DrawColumn(Splice(numbers, i), rnd, col, row + 1)

generateBoard(rnd) ==
    LET colNumbers == [col \in Idx |->
            LET min == ranges[col + 1][1]
                max == ranges[col + 1][2]
            IN  DrawColumn([i \in 1 .. (max - min + 1) |-> (i - 1) + min], rnd, col, 0)]
        board == [row \in Idx |-> [col \in Idx |->
                    [number |-> colNumbers[col][row + 1], markedBy |-> NULL]]]
    IN  [board EXCEPT ![2][2].markedBy = FREE]

\* The seeds of the Math.random() streams considered for a new board.
BoardSeeds == {0, 1, 37, 74}

\* generateBoard() under each of these streams, computed once.
Boards == [seed \in BoardSeeds |-> generateBoard(RandStream(seed))]

----------------------------------------------------------------------------
(* Callback payloads *)

NoAck == [ok |-> NULL, error |-> NULL, value |-> NULL]
Ok(v) == [ok |-> TRUE, error |-> NULL, value |-> v]
Err(e) == [ok |-> FALSE, error |-> e, value |-> NULL]

\* What `last` records of one handled event: the event, the socket, the room
\* code sent, the callback's payload, (mark-cell only) the <<row, col>> sent
\* and (disconnect only) the rooms that were sent "player-left" (line 168).
Event(op, s, r, ack) ==
    [op |-> op, sock |-> s, room |-> r, ack |-> ack, cell |-> <<>>, left |-> {}]

\* The record of a mark-cell event with the coordinates sent.
MarkEvent(s, r, row, col, ack) == [Event("mark-cell", s, r, ack) EXCEPT !.cell = <<row, col>>]

Init ==
    /\ games = <<>>
    /\ conn = [s \in Sockets |-> "new"]
    /\ last = Event("boot", NULL, NULL, NoAck)
    /\ crashed = FALSE

\* A handler of socket s runs: the process is alive and s is connected.
Running(s) == ~crashed /\ conn[s] = "open"

\* io.on("connection", ...), lines 50-51: a new socket connects.
Connection(s) ==
    /\ ~crashed
    /\ conn[s] = "new"
    /\ conn' = [conn EXCEPT ![s] = "open"]
    /\ last' = Event("connection", s, NULL, NoAck)
    /\ UNCHANGED <<games, crashed>>

\* socket.on("create-room"), lines 53-70.
CreateRoom(s, roomId, name, seed) ==
    /\ Running(s)
    /\ LET player == [id |-> s, name |-> name, board |-> Boards[seed]]
           game == [id |-> roomId,
                    hostId |-> s,
                    players |-> With(<<>>, s, player),
                    calledNumbers |-> <<>>,
                    started |-> FALSE,
                    winnerId |-> NULL]
       IN  games' = With(games, roomId, game)
    /\ last' = Event("create-room", s, roomId, Ok(roomId))
    /\ UNCHANGED <<conn, crashed>>

\* Mutant of JoinRoom: the `if (game.started)` check of line 75 is missing.
JoinRoom_IgnoreStarted(s, roomId, name, seed) ==
    /\ Running(s)
    /\ IF roomId \notin DOMAIN games
       THEN /\ last' = Event("join-room", s, roomId, Err("Room not found"))
            /\ UNCHANGED games
       ELSE LET player == [id |-> s, name |-> name, board |-> Boards[seed]]
            IN  /\ games' = [games EXCEPT
                        ![roomId].players = With(games[roomId].players, s, player)]
                /\ last' = Event("join-room", s, roomId, Ok(roomId))
    /\ UNCHANGED <<conn, crashed>>

\* Mutant of JoinRoom: the player is added (line 78) before the started
\* check of line 75.
JoinRoom_AddThenCheck(s, roomId, name, seed) ==
    /\ Running(s)
    /\ IF roomId \notin DOMAIN games
       THEN /\ last' = Event("join-room", s, roomId, Err("Room not found"))
            /\ UNCHANGED games
       ELSE LET player == [id |-> s, name |-> name, board |-> Boards[seed]]
            IN  /\ games' = [games EXCEPT
                        ![roomId].players = With(games[roomId].players, s, player)]
                /\ last' = Event("join-room", s, roomId,
                                 IF games[roomId].started
                                 THEN Err("Game already started") ELSE Ok(roomId))
    /\ UNCHANGED <<conn, crashed>>

\* socket.on("join-room"), lines 72-83.  The callback is given the game
\* object itself, which is games[roomId]; `last` keeps its room code.
JoinRoom(s, roomId, name, seed) ==
    /\ Running(s)
    /\ IF roomId \notin DOMAIN games
       THEN /\ last' = Event("join-room", s, roomId, Err("Room not found"))
            /\ UNCHANGED games
       ELSE LET game == games[roomId] IN
            IF game.started
            THEN /\ last' = Event("join-room", s, roomId, Err("Game already started"))
                 /\ UNCHANGED games
            ELSE LET player == [id |-> s, name |-> name,
                                board |-> Boards[seed]]
                 IN  /\ games' = [games EXCEPT ![roomId].players = With(game.players, s, player)]
                     /\ last' = Event("join-room", s, roomId, Ok(roomId))
    /\ UNCHANGED <<conn, crashed>>

\* Mutant of StartGame: the host check of lines 88-89 is missing.
StartGame_AnyActor(s, roomId) ==
    /\ Running(s)
    /\ IF roomId \notin DOMAIN games
       THEN /\ last' = Event("start-game", s, roomId, Err("Room not found"))
            /\ UNCHANGED games
       ELSE /\ games' = [games EXCEPT ![roomId].started = TRUE,
                                      ![roomId].calledNumbers = <<>>]
            /\ last' = Event("start-game", s, roomId, Ok(NULL))
    /\ UNCHANGED <<conn, crashed>>

\* socket.on("start-game"), lines 85-95.
StartGame(s, roomId) ==
    /\ Running(s)
    /\ IF roomId \notin DOMAIN games
       THEN /\ last' = Event("start-game", s, roomId, Err("Room not found"))
            /\ UNCHANGED games
       ELSE IF s # games[roomId].hostId
       THEN /\ last' = Event("start-game", s, roomId, Err("Only host can start"))
            /\ UNCHANGED games
       ELSE /\ games' = [games EXCEPT ![roomId].started = TRUE,
                                      ![roomId].calledNumbers = <<>>]
            /\ last' = Event("start-game", s, roomId, Ok(NULL))
    /\ UNCHANGED <<conn, crashed>>

\* Mutant of AvailableNumbers: the filter of lines 104-106 is missing.
AvailableNumbers_NoFilter(calledNumbers) == [i \in 1 .. MaxNumber |-> i]

\* Mutant of AvailableNumbers: the candidates are 1..74 (length: 74).
AvailableNumbers_OneShort(calledNumbers) ==
    SelectSeq([i \in 1 .. (MaxNumber - 1) |-> i], LAMBDA num : ~Includes(calledNumbers, num))

\* Lines 104-106: the numbers of 1..75 not yet called, in ascending order.
AvailableNumbers(calledNumbers) ==
    SelectSeq([i \in 1 .. MaxNumber |-> i], LAMBDA num : ~Includes(calledNumbers, num))

\* Mutant of CallNumber: the check of lines 100-101 tests that the socket is
\* a player of the game instead of its host.
CallNumber_AnyPlayer(s, roomId, u) ==
    /\ Running(s)
    /\ IF roomId \notin DOMAIN games
       THEN /\ last' = Event("call-number", s, roomId, Err("Room not found"))
            /\ UNCHANGED games
       ELSE IF s \notin DOMAIN games[roomId].players
       THEN /\ last' = Event("call-number", s, roomId, Err("Only host can call numbers"))
            /\ UNCHANGED games
       ELSE LET availableNumbers == AvailableNumbers(games[roomId].calledNumbers) IN
            IF Len(availableNumbers) = 0
            THEN /\ last' = Event("call-number", s, roomId, Err("All numbers called"))
                 /\ UNCHANGED games
            ELSE LET number == availableNumbers[RandIndex(u, Len(availableNumbers)) + 1]
                 IN  /\ games' = [games EXCEPT ![roomId].calledNumbers = Append(@, number)]
                     /\ last' = Event("call-number", s, roomId, Ok(number))
    /\ UNCHANGED <<conn, crashed>>

\* socket.on("call-number"), lines 97-115; u is the Math.random() draw.
CallNumber(s, roomId, u) ==
    /\ Running(s)
    /\ IF roomId \notin DOMAIN games
       THEN /\ last' = Event("call-number", s, roomId, Err("Room not found"))
            /\ UNCHANGED games
       ELSE IF s # games[roomId].hostId
       THEN /\ last' = Event("call-number", s, roomId, Err("Only host can call numbers"))
            /\ UNCHANGED games
       ELSE LET availableNumbers == AvailableNumbers(games[roomId].calledNumbers) IN
            IF Len(availableNumbers) = 0
            THEN /\ last' = Event("call-number", s, roomId, Err("All numbers called"))
                 /\ UNCHANGED games
            ELSE LET number == availableNumbers[RandIndex(u, Len(availableNumbers)) + 1]
                 IN  /\ games' = [games EXCEPT ![roomId].calledNumbers = Append(@, number)]
                     /\ last' = Event("call-number", s, roomId, Ok(number))
    /\ UNCHANGED <<conn, crashed>>

\* Mutant of ToggleMark: the two branches of the conditional are swapped.
ToggleMark_Inverted(markedBy, s) == IF Truthy(markedBy) THEN s ELSE NULL

\* Line 130: cell.markedBy = cell.markedBy ? null : socket.id
ToggleMark(markedBy, s) == IF Truthy(markedBy) THEN NULL ELSE s

\* Mutant of MarkCell: line 130 toggles the cell on the board of every
\* player of the game.
MarkCell_EveryBoard(s, roomId, row, col) ==
    /\ Running(s)
    /\ IF roomId \notin DOMAIN games
       THEN /\ last' = MarkEvent(s, roomId, row, col, Err("Room not found"))
            /\ UNCHANGED <<games, crashed>>
       ELSE IF s \notin DOMAIN games[roomId].players
       THEN /\ last' = MarkEvent(s, roomId, row, col, Err("Not in game"))
            /\ UNCHANGED <<games, crashed>>
       ELSE IF row \notin Idx
       THEN /\ last' = MarkEvent(s, roomId, row, col, NoAck)
            /\ crashed' = TRUE
            /\ UNCHANGED games
       ELSE IF col \notin Idx
       THEN /\ last' = MarkEvent(s, roomId, row, col, Err("Invalid cell"))
            /\ UNCHANGED <<games, crashed>>
       ELSE /\ games' = [games EXCEPT ![roomId].players =
                   [p \in DOMAIN @ |->
                       [@[p] EXCEPT !.board[row][col].markedBy = ToggleMark(@, s)]]]
            /\ last' = MarkEvent(s, roomId, row, col, Ok(NULL))
            /\ UNCHANGED crashed
    /\ UNCHANGED conn

\* Mutant of MarkCell: line 121 takes the board of the game's host when the
\* host is a player (game.players[game.hostId]).
MarkCell_HostBoard(s, roomId, row, col) ==
    /\ Running(s)
    /\ IF roomId \notin DOMAIN games
       THEN /\ last' = MarkEvent(s, roomId, row, col, Err("Room not found"))
            /\ UNCHANGED <<games, crashed>>
       ELSE IF s \notin DOMAIN games[roomId].players
       THEN /\ last' = MarkEvent(s, roomId, row, col, Err("Not in game"))
            /\ UNCHANGED <<games, crashed>>
       ELSE IF row \notin Idx
       THEN /\ last' = MarkEvent(s, roomId, row, col, NoAck)
            /\ crashed' = TRUE
            /\ UNCHANGED games
       ELSE IF col \notin Idx
       THEN /\ last' = MarkEvent(s, roomId, row, col, Err("Invalid cell"))
            /\ UNCHANGED <<games, crashed>>
       ELSE LET p == IF games[roomId].hostId \in DOMAIN games[roomId].players
                     THEN games[roomId].hostId ELSE s
            IN  /\ games' = [games EXCEPT
                        ![roomId].players[p].board[row][col].markedBy = ToggleMark(@, s)]
                /\ last' = MarkEvent(s, roomId, row, col, Ok(NULL))
                /\ UNCHANGED crashed
    /\ UNCHANGED conn

\* socket.on("mark-cell"), lines 117-133.  player.board[row] is undefined
\* for a row outside 0..4, and indexing undefined throws a TypeError that
\* nothing catches: the callback is never called and the process ends.
\* player.board[row][col] is undefined for a column outside 0..4.
MarkCell(s, roomId, row, col) ==
    /\ Running(s)
    /\ IF roomId \notin DOMAIN games
       THEN /\ last' = MarkEvent(s, roomId, row, col, Err("Room not found"))
            /\ UNCHANGED <<games, crashed>>
       ELSE IF s \notin DOMAIN games[roomId].players
       THEN /\ last' = MarkEvent(s, roomId, row, col, Err("Not in game"))
            /\ UNCHANGED <<games, crashed>>
       ELSE IF row \notin Idx
       THEN /\ last' = MarkEvent(s, roomId, row, col, NoAck)
            /\ crashed' = TRUE
            /\ UNCHANGED games
       ELSE IF col \notin Idx
       THEN /\ last' = MarkEvent(s, roomId, row, col, Err("Invalid cell"))
            /\ UNCHANGED <<games, crashed>>
       ELSE /\ games' = [games EXCEPT
                   ![roomId].players[s].board[row][col].markedBy = ToggleMark(@, s)]
            /\ last' = MarkEvent(s, roomId, row, col, Ok(NULL))
            /\ UNCHANGED crashed
    /\ UNCHANGED conn

\* Lines 143-144: every cell of the line is marked by the socket or free.
checkLine(cells, s) ==
    \A i \in 1 .. Len(cells) : cells[i].markedBy = s \/ cells[i].markedBy = FREE

\* Mutant of hasBingo: the anti-diagonal of line 150 reads board[i][i].
hasBingo_DiagonalTwice(board, s) ==
    \/ \E row \in Idx : checkLine([i \in 1 .. BoardSize |-> board[row][i - 1]], s)
    \/ \E c \in Idx : checkLine([i \in 1 .. BoardSize |-> board[i - 1][c]], s)
    \/ checkLine([i \in 1 .. BoardSize |-> board[i - 1][i - 1]], s)
    \/ checkLine([i \in 1 .. BoardSize |-> board[i - 1][i - 1]], s)

\* Lines 146-150: some row, some column, the diagonal or the anti-diagonal.
hasBingo(board, s) ==
    \/ \E row \in Idx : checkLine([i \in 1 .. BoardSize |-> board[row][i - 1]], s)
    \/ \E c \in Idx : checkLine([i \in 1 .. BoardSize |-> board[i - 1][c]], s)
    \/ checkLine([i \in 1 .. BoardSize |-> board[i - 1][i - 1]], s)
    \/ checkLine([i \in 1 .. BoardSize |-> board[i - 1][4 - (i - 1)]], s)

\* Mutant of ClaimBingo: the `if (hasBingo)` test of line 152 is missing.
ClaimBingo_Unverified(s, roomId) ==
    /\ Running(s)
    /\ IF roomId \notin DOMAIN games
       THEN /\ last' = Event("claim-bingo", s, roomId, Err("Room not found"))
            /\ UNCHANGED games
       ELSE IF s \notin DOMAIN games[roomId].players
       THEN /\ last' = Event("claim-bingo", s, roomId, Err("Not in game"))
            /\ UNCHANGED games
       ELSE /\ games' = [games EXCEPT ![roomId].winnerId = s]
            /\ last' = Event("claim-bingo", s, roomId, Ok(NULL))
    /\ UNCHANGED <<conn, crashed>>

\* socket.on("claim-bingo"), lines 135-162.
ClaimBingo(s, roomId) ==
    /\ Running(s)
    /\ IF roomId \notin DOMAIN games
       THEN /\ last' = Event("claim-bingo", s, roomId, Err("Room not found"))
            /\ UNCHANGED games
       ELSE IF s \notin DOMAIN games[roomId].players
       THEN /\ last' = Event("claim-bingo", s, roomId, Err("Not in game"))
            /\ UNCHANGED games
       ELSE IF hasBingo(games[roomId].players[s].board, s)
       THEN /\ games' = [games EXCEPT ![roomId].winnerId = s]
            /\ last' = Event("claim-bingo", s, roomId, Ok(NULL))
       ELSE /\ last' = Event("claim-bingo", s, roomId, Err("Not a valid bingo"))
            /\ UNCHANGED games
    /\ UNCHANGED <<conn, crashed>>

\* Mutant of RemoveSocket: the games.delete(id) of line 169 is missing.
RemoveSocket_KeepEmpty(s) ==
    [id \in DOMAIN games |->
        IF s \in DOMAIN games[id].players
        THEN [games[id] EXCEPT !.players = Without(@, s)]
        ELSE games[id]]

\* Mutant of RemoveSocket: the loop of line 165 stops after the first game
\* that has the socket (a break after line 169).
RemoveSocket_FirstRoomOnly(s) ==
    LET with == {id \in DOMAIN games : s \in DOMAIN games[id].players}
        first == CHOOSE id \in with : TRUE
        left(id) == IF with # {} /\ id = first
                    THEN [games[id] EXCEPT !.players = Without(@, s)]
                    ELSE games[id]
        kept == {id \in DOMAIN games : DOMAIN left(id).players # {}}
    IN  [id \in kept |-> left(id)]

\* Lines 165-171: the socket is deleted from every game that has it, and a
\* game left with no player is deleted from the Map.
RemoveSocket(s) ==
    LET left(id) == IF s \in DOMAIN games[id].players
                    THEN [games[id] EXCEPT !.players = Without(@, s)]
                    ELSE games[id]
        kept == {id \in DOMAIN games :
                    ~(s \in DOMAIN games[id].players /\ DOMAIN left(id).players = {})}
    IN  [id \in kept |-> left(id)]

\* socket.on("disconnect"), lines 164-173.
Disconnect(s) ==
    /\ Running(s)
    /\ games' = RemoveSocket(s)
    /\ conn' = [conn EXCEPT ![s] = "closed"]
    /\ last' = [Event("disconnect", s, NULL, NoAck) EXCEPT
                    !.left = {id \in DOMAIN games : s \in DOMAIN games[id].players}]
    /\ UNCHANGED crashed

----------------------------------------------------------------------------
(* Next-state relations.  Every specification runs the same handlers; they *)
(* differ in the sockets, room codes and inputs the clients send and in    *)
(* the Math.random() draws considered.                                     *)

\* The calledNumbers of room code r, empty if r is not registered.
Called(r) == IF r \in DOMAIN games THEN games[r].calledNumbers ELSE <<>>

\* The Math.random() draws considered for a call-number when c has been
\* called: the lowest or the highest value during the first freeHead calls
\* of a game and once at most freeTail numbers remain, the lowest value in
\* between.
CallDraws(c, freeHead, freeTail) ==
    IF Len(c) < freeHead \/ MaxNumber - Len(c) <= freeTail
    THEN {0, RandDen - 1}
    ELSE {0}

\* One event is handled.  S: sockets, R: room codes, seeds: board seeds,
\* freeHead, freeTail: see CallDraws, rows, cols: mark-cell coordinates;
\* call-number is sent while fewer than maxCalls numbers are called in the
\* room.
Step(S, R, seeds, freeHead, freeTail, rows, cols, maxCalls) ==
    \E s \in S :
        \/ Connection(s)
        \/ Disconnect(s)
        \/ \E r \in R :
            \/ \E n \in Names, seed \in seeds : CreateRoom(s, r, n, seed)
            \/ \E n \in Names, seed \in seeds : JoinRoom(s, r, n, seed)
            \/ StartGame(s, r)
            \/ \E u \in CallDraws(Called(r), freeHead, freeTail) :
                /\ Len(Called(r)) < maxCalls
                /\ CallNumber(s, r, u)
            \/ \E row \in rows, col \in cols : MarkCell(s, r, row, col)
            \/ ClaimBingo(s, r)

MaxCalls == 2

\* The main specification: three sockets and one room code (so every
\* create-room after the first collides with a registered code), the center
\* cell and an out-of-range column for mark-cell, the lowest and highest
\* Math.random() draws for call-number.
Next ==
    Step(Sockets, {"r1"}, {0}, MaxCalls, 0, {2}, {2, 5}, MaxCalls)

Spec == Init /\ [][Next]_vars

\* The specification of number calling: two sockets, one room code, and
\* games that run until all 75 numbers are called.  The draw is the lowest
\* or the highest value for the first FreeHead calls of a game and once at
\* most FreeTail numbers remain, and the lowest value in between.
FreeHead == 1
FreeTail == 2

NextCalls ==
    Step({"s1", "s2"}, {"r1"}, {0}, FreeHead, FreeTail, {2}, {5}, MaxNumber + 1)

SpecCalls == Init /\ [][NextCalls]_vars

\* The specification of the registry: two sockets and two room codes, so
\* that a socket can be in two rooms at once and a create-room can collide
\* with one code while the other room stands; mark-cell only with an
\* out-of-range column, at most one number called per game.
NextRooms ==
    Step({"s1", "s2"}, RoomIds, {0}, 0, 0, {2}, {5}, 1)

SpecRooms == Init /\ [][NextRooms]_vars

\* The specification of board generation and of malformed coordinates: two
\* sockets, one room code, a board from every seed of BoardSeeds at
\* create-room and join-room, and mark-cell on cell (0,0) and with the row,
\* the column or both out of range.
NextBoards ==
    Step({"s1", "s2"}, {"r1"}, BoardSeeds, 0, 0, {0, 5}, {0, 5}, 1)

SpecBoards == Init /\ [][NextBoards]_vars

----------------------------------------------------------------------------
(* Properties *)

\* The step handles event op of socket s on room code r.
Handled(op, r) == last'.op = op /\ last'.room = r

\* Room code r names the same game object before and after the step: it is
\* registered in both states and the step is not a create-room that
\* registers a new game under r (games.set, line 66).
SameRoom(r) ==
    /\ r \in DOMAIN games
    /\ r \in DOMAIN games'
    /\ ~Handled("create-room", r)

\* The specification of winning: two sockets, one room code, and mark-cell
\* on the four cells of row 2 beside the center, so that either player can
\* complete the row through the free cell; at most one number is called
\* (marking needs none).
NextWin ==
    Step({"s1", "s2"}, {"r1"}, {0}, 0, 0, {2}, Idx \ {2}, 1)

SpecWin == Init /\ [][NextWin]_vars

\* The values of a sequence.
Range(seq) == {seq[i] : i \in 1 .. Len(seq)}

\* C1: after every step the calledNumbers of every registered room holds
\* pairwise different integers of 1..75; and every call-number answered ok
\* returns a number of 1..75 that was not in the room's calledNumbers
\* before the call and appends exactly that number, leaving the rest of the
\* registry as it was.
C1_CalledNumbersUnique ==
    [][/\ \A r \in DOMAIN games' :
            LET c == games'[r].calledNumbers
            IN  /\ Range(c) \subseteq 1 .. 75
                /\ Cardinality(Range(c)) = Len(c)
       /\ \A r \in DOMAIN games :
            (Handled("call-number", r) /\ last'.ack.ok = TRUE)
                => /\ last'.ack.value \in 1 .. 75
                   /\ last'.ack.value \notin Range(games[r].calledNumbers)
                   /\ games' = [games EXCEPT ![r].calledNumbers =
                                    Append(@, last'.ack.value)]
      ]_vars

\* Witness of C1: the call-number just answered ok drew the 75th number of
\* a game.
C1_Witness ==
    /\ last.op = "call-number"
    /\ last.ack.ok = TRUE
    /\ last.room \in DOMAIN games
    /\ Len(games[last.room].calledNumbers) = MaxNumber
    /\ games[last.room].calledNumbers[75] = last.ack.value

\* C10: a call-number of the host on a room whose calledNumbers holds all
\* of 1..75 is answered "All numbers called" and changes nothing; on a room
\* with fewer than 75 called numbers it is answered ok and calledNumbers is
\* one longer.
C10_ExhaustedAfter75 ==
    [][\A r \in DOMAIN games :
        (Handled("call-number", r) /\ last'.sock = games[r].hostId) =>
            /\ Range(games[r].calledNumbers) = 1 .. 75
                => (last'.ack = Err("All numbers called") /\ games' = games)
            /\ Len(games[r].calledNumbers) < 75
                => /\ last'.ack.ok = TRUE
                   /\ r \in DOMAIN games'
                   /\ Len(games'[r].calledNumbers) = Len(games[r].calledNumbers) + 1
      ]_vars

\* Witness of C10: the host has just been answered "All numbers called" on
\* a room with all 75 numbers called.
C10_Witness ==
    /\ last.op = "call-number"
    /\ last.ack = Err("All numbers called")
    /\ last.room \in DOMAIN games
    /\ last.sock = games[last.room].hostId
    /\ Range(games[last.room].calledNumbers) = 1 .. 75

\* C2: for every registered room, a start-game or call-number of a socket
\* other than the room's hostId is answered with the host-only error and
\* changes nothing; and whenever a room's started flag or calledNumbers
\* changes, the step is a start-game or call-number of its hostId.
C2_OnlyHostStartsAndCalls ==
    [][\A r \in DOMAIN games :
        /\ (Handled("start-game", r) /\ last'.sock # games[r].hostId)
            => (last'.ack = Err("Only host can start") /\ games' = games)
        /\ (Handled("call-number", r) /\ last'.sock # games[r].hostId)
            => (last'.ack = Err("Only host can call numbers") /\ games' = games)
        /\ (SameRoom(r) /\ (games'[r].started # games[r].started
                            \/ games'[r].calledNumbers # games[r].calledNumbers))
            => /\ Handled("start-game", r) \/ Handled("call-number", r)
               /\ last'.sock = games[r].hostId
               /\ last'.ack.ok = TRUE
      ]_vars

\* Witness of C2: a socket that is a player of the started room but not its
\* host has just been refused a call-number.
C2_Witness ==
    /\ last.op = "call-number"
    /\ last.ack = Err("Only host can call numbers")
    /\ last.room \in DOMAIN games
    /\ last.sock \in DOMAIN games[last.room].players
    /\ last.sock # games[last.room].hostId
    /\ games[last.room].started

\* C3: a started room stays started for as long as it is registered, and a
\* join-room on a started room is answered "Game already started" and
\* changes nothing (no player is added or replaced).
C3_NoJoinAfterStart ==
    [][\A r \in DOMAIN games : games[r].started =>
        /\ SameRoom(r) => games'[r].started
        /\ Handled("join-room", r)
            => (last'.ack = Err("Game already started") /\ games' = games)
      ]_vars

\* Witness of C3: a join-room has just been refused on a started room in
\* which numbers have been called since the start.
C3_Witness ==
    /\ last.op = "join-room"
    /\ last.ack = Err("Game already started")
    /\ last.room \in DOMAIN games
    /\ games[last.room].started
    /\ games[last.room].calledNumbers # <<>>
    /\ last.sock \notin DOMAIN games[last.room].players

\* The 12 lines of a board as sets of <<row, col>>: 5 rows, 5 columns, the
\* main diagonal and the anti-diagonal.
Lines ==
    {{<<r, c>> : c \in 0 .. 4} : r \in 0 .. 4}
        \cup {{<<r, c>> : r \in 0 .. 4} : c \in 0 .. 4}
        \cup {{<<i, i>> : i \in 0 .. 4}}
        \cup {{<<i, 4 - i>> : i \in 0 .. 4}}

\* Some line of the board has all five cells marked by x or free.
CompleteLine(board, x) ==
    \E L \in Lines : \A rc \in L : board[rc[1]][rc[2]].markedBy \in {x, FREE}

\* The specification of win evaluation.  It starts after socket s1 has
\* created room r1 and toggled cells of its board with mark-cell: the cells
\* beside the center that s1 has marked are those of one of the 12 lines (or
\* of none) less at most MaxMissing of them, and the center is as generated
\* ("free"), toggled once (null) or toggled twice (s1).  Every such board is
\* reached from the generated one by one mark-cell per marked cell.  From
\* there the handlers run for s1 and a second socket, with mark-cell on the
\* center.
MaxMissing == 1

BingoMarkings ==
    UNION {{(L \ D) \ {<<2, 2>>} : D \in {d \in SUBSET L : Cardinality(d) <= MaxMissing}} :
            L \in Lines \cup {{}}}

InitBingo ==
    /\ \E marked \in BingoMarkings, center \in {FREE, NULL, "s1"} :
        LET board == [row \in Idx |-> [col \in Idx |->
                        [Boards[0][row][col] EXCEPT !.markedBy =
                            IF <<row, col>> = <<2, 2>> THEN center
                            ELSE IF <<row, col>> \in marked THEN "s1"
                            ELSE NULL]]]
        IN  games = With(<<>>, "r1",
                        [id |-> "r1",
                         hostId |-> "s1",
                         players |-> With(<<>>, "s1",
                                        [id |-> "s1", name |-> "Alice", board |-> board]),
                         calledNumbers |-> <<>>,
                         started |-> FALSE,
                         winnerId |-> NULL])
    /\ conn = [s \in Sockets |-> IF s = "s1" THEN "open" ELSE "new"]
    /\ last = MarkEvent("s1", "r1", 2, 2, Ok(NULL))
    /\ crashed = FALSE

NextBingo ==
    Step({"s1", "s2"}, {"r1"}, {0}, 0, 0, {2}, {2}, 1)

SpecBingo == InitBingo /\ [][NextBingo]_vars

\* C4: a claim-bingo of a player of the room is answered ok if and only if
\* one of the 12 lines of that player's own board has all five cells marked
\* by that player or free, and is answered "Not a valid bingo" otherwise.
C4_ClaimIffCompleteLine ==
    [][\A r \in DOMAIN games :
        (Handled("claim-bingo", r) /\ last'.sock \in DOMAIN games[r].players) =>
            LET complete == CompleteLine(games[r].players[last'.sock].board, last'.sock)
            IN  /\ (last'.ack.ok = TRUE) <=> complete
                /\ ~complete => last'.ack = Err("Not a valid bingo")
      ]_vars

\* Witness of C4: the claim-bingo just answered ok was made on a board whose
\* only complete line is the anti-diagonal, through the free cell.
C4_Witness ==
    /\ last.op = "claim-bingo"
    /\ last.ack.ok = TRUE
    /\ last.room \in DOMAIN games
    /\ LET board == games[last.room].players[last.sock].board
       IN  /\ board[2][2].markedBy = FREE
           /\ \A L \in Lines :
                (\A rc \in L : board[rc[1]][rc[2]].markedBy \in {last.sock, FREE})
                    <=> L = {<<i, 4 - i>> : i \in 0 .. 4}

\* C5: once the winnerId of a room holds a socket id, it keeps that value
\* for as long as the room is registered.
C5_WinnerSetOnce ==
    [][\A r \in DOMAIN games :
        (SameRoom(r) /\ games[r].winnerId # NULL)
            => games'[r].winnerId = games[r].winnerId
      ]_vars

\* C6: whenever the winnerId of a room changes, the step is a claim-bingo
\* on that room answered ok, the new value is the claiming socket, that
\* socket is a player of the room and its board has a complete line; and a
\* claim-bingo that is not answered ok changes nothing.
C6_WinnerOnlyByVerifiedClaim ==
    [][\A r \in DOMAIN games :
        /\ (SameRoom(r) /\ games'[r].winnerId # games[r].winnerId)
            => /\ Handled("claim-bingo", r)
               /\ last'.ack.ok = TRUE
               /\ games'[r].winnerId = last'.sock
               /\ last'.sock \in DOMAIN games[r].players
               /\ CompleteLine(games[r].players[last'.sock].board, last'.sock)
        /\ (Handled("claim-bingo", r) /\ last'.ack.ok # TRUE) => games' = games
      ]_vars

\* Witness of C6: the claim-bingo just answered ok made the claiming socket,
\* whose board has a complete line, the winner of the room.
C6_Witness ==
    /\ last.op = "claim-bingo"
    /\ last.ack.ok = TRUE
    /\ last.room \in DOMAIN games
    /\ games[last.room].winnerId = last.sock
    /\ CompleteLine(games[last.room].players[last.sock].board, last.sock)

\* C7: the hostId of every registered room with a player is one of its
\* players.
C7_HostIsPlayer ==
    \A r \in DOMAIN games :
        DOMAIN games[r].players # {} => games[r].hostId \in DOMAIN games[r].players

\* C8: the center cell of every player's board is marked "free".
C8_CenterAlwaysFree ==
    \A r \in DOMAIN games : \A p \in DOMAIN games[r].players :
        games[r].players[p].board[2][2].markedBy = FREE

\* C9: a disconnect that removes a room's only player removes the room from
\* the registry in that step; a room code that is not registered becomes
\* registered only by a create-room on it; and a join-room on a code that
\* is not registered is answered "Room not found" and changes nothing.
C9_EmptyRoomRemoved ==
    [][/\ \A r \in DOMAIN games :
            (last'.op = "disconnect" /\ DOMAIN games[r].players = {last'.sock})
                => r \notin DOMAIN games'
       /\ \A r \in RoomIds \ DOMAIN games :
            /\ r \in DOMAIN games' => Handled("create-room", r)
            /\ Handled("join-room", r)
                => (last'.ack = Err("Room not found") /\ games' = games)
      ]_vars

\* Witness of C9: the disconnect just handled took the socket out of a room
\* that is no longer registered.
C9_Witness ==
    /\ last.op = "disconnect"
    /\ \E r \in last.left : r \notin DOMAIN games

\* The step is a mark-cell answered ok; then the socket is a player of the
\* room and the coordinates sent are those of a cell.
MarkedOk == last'.op = "mark-cell" /\ last'.ack.ok = TRUE

\* The markedBy of the cell the event e names, in registry g.
MarkOf(g, e) == g[e.room].players[e.sock].board[e.cell[1]][e.cell[2]].markedBy

\* C11: a mark-cell of a player of a registered room with the row, the
\* column or both outside 0..4 is answered "Invalid cell", changes nothing
\* and does not end the process.
C11_OutOfRangeIsInvalidCell ==
    [][(/\ last'.op = "mark-cell"
        /\ last'.room \in DOMAIN games
        /\ last'.sock \in DOMAIN games[last'.room].players
        /\ ~(last'.cell[1] \in 0 .. 4 /\ last'.cell[2] \in 0 .. 4))
        => /\ last'.ack.error = "Invalid cell"
           /\ games' = games
           /\ crashed' = FALSE
      ]_vars

\* C12: a create-room registers its room under a code that was not
\* registered: afterwards the registry holds the rooms it held, unchanged,
\* and under the new code a room in the lobby with the creator as host and
\* only player, no called number and no winner.
C12_CreateAddsFreshRoom ==
    [][\A r \in RoomIds : Handled("create-room", r) =>
        /\ r \notin DOMAIN games
        /\ DOMAIN games' = DOMAIN games \cup {r}
        /\ \A q \in DOMAIN games : games'[q] = games[q]
        /\ games'[r].hostId = last'.sock
        /\ DOMAIN games'[r].players = {last'.sock}
        /\ games'[r].started = FALSE
        /\ games'[r].calledNumbers = <<>>
        /\ games'[r].winnerId = NULL
      ]_vars

\* C13: a mark-cell answered ok on a cell that is unmarked marks it as the
\* calling socket, and one answered ok on a cell marked as the calling
\* socket unmarks it; so the second of two such calls on an unmarked cell,
\* with no other call on that cell in between, leaves it unmarked again.
C13_ToggleTwiceUnmarks ==
    [][MarkedOk =>
        /\ MarkOf(games, last') = NULL => MarkOf(games', last') = last'.sock
        /\ MarkOf(games, last') = last'.sock => MarkOf(games', last') = NULL
      ]_vars

\* Witness of C13: a mark-cell has just been answered ok on a cell beside
\* the center that is now unmarked.  On such a cell only its owner's
\* mark-cell writes, so it was marked by an earlier call of the same socket
\* on the unmarked cell, and no call touched it in between.
C13_Witness ==
    /\ last.op = "mark-cell"
    /\ last.ack.ok = TRUE
    /\ last.cell # <<2, 2>>
    /\ last.room \in DOMAIN games
    /\ last.sock \in DOMAIN games[last.room].players
    /\ MarkOf(games, last) = NULL

\* The numbers of column c of a board.
ColumnNumbers(board, c) == {board[r][c].number : r \in 0 .. 4}

\* C14: the board a create-room or join-room answered ok gives the socket
\* is a 5x5 grid whose column c holds five different numbers of
\* 15c+1 .. 15c+15 (so its 25 numbers are all different), with the center
\* marked "free" and every other cell unmarked.
C14_GeneratedBoardWellFormed ==
    [][\A r \in RoomIds :
        ((Handled("create-room", r) \/ Handled("join-room", r)) /\ last'.ack.ok = TRUE) =>
            LET board == games'[r].players[last'.sock].board
            IN  /\ DOMAIN board = 0 .. 4
                /\ \A row \in 0 .. 4 : DOMAIN board[row] = 0 .. 4
                /\ \A c \in 0 .. 4 :
                    /\ ColumnNumbers(board, c) \subseteq (15 * c + 1) .. (15 * c + 15)
                    /\ Cardinality(ColumnNumbers(board, c)) = 5
                /\ Cardinality(UNION {ColumnNumbers(board, c) : c \in 0 .. 4}) = 25
                /\ \A row \in 0 .. 4, c \in 0 .. 4 :
                    board[row][c].markedBy = IF <<row, c>> = <<2, 2>> THEN FREE ELSE NULL
      ]_vars

\* Witness of C14: the join-room just answered ok gave the socket a board
\* whose numbers differ from those of the host's board.
C14_Witness ==
    /\ last.op = "join-room"
    /\ last.ack.ok = TRUE
    /\ last.room \in DOMAIN games
    /\ games[last.room].hostId \in DOMAIN games[last.room].players
    /\ \E row \in 0 .. 4, c \in 0 .. 4 :
        games[last.room].players[last.sock].board[row][c].number
            # games[last.room].players[games[last.room].hostId].board[row][c].number

\* The error strings of the callbacks (lines 74, 75, 87, 89, 99, 101, 108,
\* 119, 122, 125, 137, 140, 160).
Failures ==
    {"Room not found", "Game already started", "Only host can start",
     "Only host can call numbers", "All numbers called", "Not in game",
     "Invalid cell", "Not a valid bingo"}

\* C15: a step whose callback is given an error leaves the registry as it
\* was: the same rooms, each with the same players, boards, calledNumbers,
\* started flag, hostId and winnerId.
C15_FailureChangesNothing ==
    [][last'.ack.error # NULL => (last'.ack.error \in Failures /\ games' = games)]_vars

\* Witness of C15: a call-number has just been answered "All numbers called"
\* in a started room with 75 called numbers.
C15_Witness ==
    /\ last.ack.error = "All numbers called"
    /\ last.room \in DOMAIN games
    /\ games[last.room].started
    /\ Len(games[last.room].calledNumbers) = MaxNumber

\* C16: a mark-cell answered ok changes the markedBy of the cell sent, on
\* the board the calling socket has in the room sent, and nothing else of
\* the registry.
C16_MarkChangesOneCell ==
    [][MarkedOk =>
        /\ MarkOf(games', last') # MarkOf(games, last')
        /\ games' = [games EXCEPT
                ![last'.room].players[last'.sock].board[last'.cell[1]][last'.cell[2]].markedBy
                    = MarkOf(games', last')]
      ]_vars

\* Witness of C16: a mark-cell has just been answered ok and marked a cell
\* whose number has not been called, in a room with another player and a
\* called number.
C16_Witness ==
    /\ last.op = "mark-cell"
    /\ last.ack.ok = TRUE
    /\ last.room \in DOMAIN games
    /\ LET game == games[last.room]
       IN  /\ last.sock \in DOMAIN game.players
           /\ DOMAIN game.players # {last.sock}
           /\ game.calledNumbers # <<>>
           /\ MarkOf(games, last) = last.sock
           /\ game.players[last.sock].board[last.cell[1]][last.cell[2]].number
                \notin Range(game.calledNumbers)

\* C17: a room with a winner has been started.
C17_WinnerOnlyAfterStart ==
    \A r \in DOMAIN games : games[r].winnerId # NULL => games[r].started

\* C18: after every step every registered room has a player; and after a
\* disconnect the socket is a player of no registered room, while every
\* room it was not a player of is still registered and unchanged.
C18_DisconnectLeavesEveryRoom ==
    [][/\ \A r \in DOMAIN games' : DOMAIN games'[r].players # {}
       /\ last'.op = "disconnect" =>
            /\ \A r \in DOMAIN games' : last'.sock \notin DOMAIN games'[r].players
            /\ \A r \in DOMAIN games :
                last'.sock \notin DOMAIN games[r].players
                    => (r \in DOMAIN games' /\ games'[r] = games[r])
      ]_vars

\* Witness of C18: the socket that has just disconnected was a player of
\* two rooms, one of which is still registered.
C18_Witness ==
    /\ last.op = "disconnect"
    /\ Cardinality(last.left) = 2
    /\ \E r \in last.left : r \in DOMAIN games

\* C19: every cell of the board of a player P is unmarked, "free" or marked
\* as P, and "free" is on no cell but the center.
C19_MarksAreOwn ==
    \A r \in DOMAIN games : \A p \in DOMAIN games[r].players :
        \A row \in 0 .. 4, col \in 0 .. 4 :
            LET m == games[r].players[p].board[row][col].markedBy
            IN  /\ m \in {NULL, FREE, p}
                /\ m = FREE => <<row, col>> = <<2, 2>>

\* Witness of C19: two players of a room each have a cell marked as their
\* own, and one of them has just marked.
C19_Witness ==
    /\ last.op = "mark-cell"
    /\ last.ack.ok = TRUE
    /\ \E r \in DOMAIN games : \E p, q \in DOMAIN games[r].players :
        /\ p # q
        /\ \E col \in 0 .. 4 : games[r].players[p].board[2][col].markedBy = p
        /\ \E col \in 0 .. 4 : games[r].players[q].board[2][col].markedBy = q

\* C20: while a room is registered whose host has disconnected, no step
\* changes its started flag or its calledNumbers, and every start-game and
\* call-number on it is answered with an error.
C20_StaleHostFreezesRoom ==
    [][\A r \in DOMAIN games : conn[games[r].hostId] = "closed" =>
        /\ SameRoom(r) => /\ games'[r].started = games[r].started
                          /\ games'[r].calledNumbers = games[r].calledNumbers
        /\ (Handled("start-game", r) \/ Handled("call-number", r))
            => last'.ack.error \in {"Only host can start", "Only host can call numbers"}
      ]_vars

\* Witness of C20: a player of a room still in the lobby, whose host has
\* disconnected, has just been refused a start-game.
C20_Witness ==
    /\ last.op = "start-game"
    /\ last.ack.error = "Only host can start"
    /\ last.room \in DOMAIN games
    /\ conn[games[last.room].hostId] = "closed"
    /\ last.sock \in DOMAIN games[last.room].players
    /\ ~games[last.room].started
====
